---- MODULE Spec2Model ----
(***************************************************************************)
(* Main-thread task reconstruction of lighthouse-core:                     *)
(*   gather/computed/main-thread-tasks.js  (MainThreadTasks)               *)
(*   lib/task-groups.js                    (the category taxonomy)         *)
(*                                                                         *)
(* The trace events are read one at a time by the for-loop of              *)
(* _createTasksFromEvents; the model draws each next event from a bounded  *)
(* universe and keeps the events read so far in traceEvents.  A task node  *)
(* is a record of the sequence tasks; node references (parent, children,   *)
(* currentTask) are indices into tasks, 0 standing for undefined, and the  *)
(* event reference of a node is an index into traceEvents.                 *)
(***************************************************************************)
EXTENDS Integers, Sequences, FiniteSets

(***************************************************************************)
(* Bounds and input values                                                 *)
(***************************************************************************)
\* longest event sequence read by the loop
MaxEvents == 4

\* longest event sequence of the attribution specification
MaxURLEvents == 3

\* longest event sequence of the classification specification
MaxGroupEvents == 3

\* the trace's base timestamp (microseconds)
BaseTs == 1241250325

\* microseconds per millisecond, the divisor of the rescaling
UsPerMs == 1000

\* offsets (ms) of the event timestamps from BaseTs
RelativeMs == {0, 5, 10, 55}

\* the Complete events, as <<offset, duration>> in ms: the two of the unit
\* test, spans that end exactly at a later timestamp, and spans that outlast
\* an enclosing span
CompleteMs == {<<0, 100>>, <<10, 30>>, <<0, 5>>, <<5, 5>>, <<5, 50>>, <<55, 100>>}

Timestamps == {BaseTs + UsPerMs * t : t \in RelativeMs}

(***************************************************************************)
(* JavaScript values                                                       *)
(***************************************************************************)
\* the value undefined of a string-valued or object-valued property
Undefined == "undefined"

\* the number NaN: an integer no timestamp arithmetic of the model produces
NaN == -999999999

IsFinite(x) == x # NaN
Sub(a, b) == IF a = NaN \/ b = NaN THEN NaN ELSE a - b
Add(a, b) == IF a = NaN \/ b = NaN THEN NaN ELSE a + b
\* x / 1000; every finite value divided by the model is a multiple of 1000
DivMs(x) == IF x = NaN THEN NaN ELSE x \div UsPerMs
\* a || b on string-valued properties
Or(a, b) == IF a # Undefined THEN a ELSE b

\* an optional array property: <<>> is undefined, <<a>> is the array a
NoArray == <<>>
Array(a) == <<a>>

(***************************************************************************)
(* lib/task-groups.js                                                      *)
(***************************************************************************)
taskGroups ==
  [ParseHTML |->
     [id |-> "ParseHTML", label |-> "Parse HTML & CSS",
      traceEventNames |-> <<"ParseHTML", "ParseAuthorStyleSheet">>],
   StyleLayout |->
     [id |-> "StyleLayout", label |-> "Style & Layout",
      traceEventNames |-> <<"ScheduleStyleRecalculation", "RecalculateStyles",
                            "UpdateLayoutTree", "InvalidateLayout", "Layout",
                            "UpdateLayer", "UpdateLayerTree">>],
   PaintCompositeRender |->
     [id |-> "PaintCompositeRender", label |-> "Rendering",
      traceEventNames |-> <<"Animation", "RequestMainThreadFrame",
                            "ActivateLayerTree", "DrawFrame", "HitTest",
                            "PaintSetup", "Paint", "PaintImage", "Rasterize",
                            "RasterTask", "ScrollLayer", "CompositeLayers">>],
   ScriptParseCompile |->
     [id |-> "ScriptParseCompile", label |-> "Script Parsing & Compilation",
      traceEventNames |-> <<"v8.compile", "v8.compileModule",
                            "v8.parseOnBackground">>],
   ScriptEvaluation |->
     [id |-> "ScriptEvaluation", label |-> "Script Evaluation",
      traceEventNames |-> <<"EventDispatch", "EvaluateScript", "EvaluateModule",
                            "FunctionCall", "TimerFire", "FireIdleCallback",
                            "FireAnimationFrame", "RunMicrotasks", "V8.Execute">>],
   GarbageCollection |->
     [id |-> "GarbageCollection", label |-> "Garbage Collection",
      traceEventNames |-> <<"GCEvent", "MinorGC", "MajorGC",
                            "ThreadState::performIdleLazySweep",
                            "ThreadState::completeSweep", "BlinkGCMarking">>],
   Other |->
     [id |-> "Other", label |-> "Other",
      traceEventNames |-> <<"MessageLoop::RunTask",
                            "TaskQueueManager::ProcessTaskFromWorkQueue",
                            "ThreadControllerImpl::DoWork">>]]

\* Object.entries(taskGroups): the group keys in declaration order
GroupIds == <<"ParseHTML", "StyleLayout", "PaintCompositeRender",
              "ScriptParseCompile", "ScriptEvaluation", "GarbageCollection",
              "Other">>

SeqRange(s) == {s[i] : i \in 1..Len(s)}

\* the Set of every recognized raw event name
traceEventNames == UNION {SeqRange(taskGroups[g].traceEventNames) : g \in SeqRange(GroupIds)}

\* mutant of taskNameToGroup: the names listed by Other are not recognized
taskNameToGroupNoOther(name) ==
  LET hits == {i \in 1..Len(GroupIds) :
                 /\ GroupIds[i] # "Other"
                 /\ name \in SeqRange(taskGroups[GroupIds[i]].traceEventNames)}
  IN IF hits = {} THEN Undefined
     ELSE GroupIds[CHOOSE i \in hits : \A j \in hits : j <= i]

\* taskNameToGroup[name]: the id of the group recognizing name, or undefined.
\* The loop assigns in declaration order, so the last group listing a name wins.
taskNameToGroup(name) ==
  LET hits == {i \in 1..Len(GroupIds) :
                 name \in SeqRange(taskGroups[GroupIds[i]].traceEventNames)}
  IN IF hits = {} THEN Undefined
     ELSE GroupIds[CHOOSE i \in hits : \A j \in hits : j <= i]

\* taskGroups.other: the registry has no key "other" (its key is "Other")
taskGroupsOther == IF "other" \in DOMAIN taskGroups THEN taskGroups["other"].id ELSE Undefined

(***************************************************************************)
(* Trace events (the input)                                                *)
(***************************************************************************)
\* the (pid, tid) of the anchor event found by TraceProcessor.findTracingStartedEvt
startedInPageEvt == [pid |-> 1, tid |-> 1]

\* args.data of an event that carries neither a URL nor a call stack
NoData == [url |-> Undefined, stackTrace |-> NoArray]

Event(ph, name, ts, dur, pid, tid, data) ==
  [ph |-> ph, name |-> name, ts |-> ts, dur |-> dur, pid |-> pid, tid |-> tid,
   args |-> [data |-> data]]

MainEvent(ph, name, ts, dur, data) ==
  Event(ph, name, ts, dur, startedInPageEvt.pid, startedInPageEvt.tid, data)

\* events of other threads and events of other phases (the anchor itself is one)
FilteredEvents ==
  {Event("X", "TaskA", BaseTs + 55 * UsPerMs, UsPerMs, startedInPageEvt.pid,
         startedInPageEvt.tid + 1, NoData),
   Event("B", "TaskA", BaseTs, 0, startedInPageEvt.pid + 1, startedInPageEvt.tid, NoData)}
  \cup {MainEvent("I", "TracingStartedInPage", BaseTs, 0, NoData)}

\* the universe of the timing specification: Begin and End events of the
\* primary thread at every timestamp and the Complete events, without payload;
\* dur is read of Complete events only and is 0 on the others.
TimingEvents ==
  {MainEvent(ph, "TaskA", ts, 0, NoData) : ph \in {"B", "E"}, ts \in Timestamps}
  \cup {MainEvent("X", "TaskA", BaseTs + UsPerMs * c[1], UsPerMs * c[2], NoData) :
          c \in CompleteMs}
  \cup FilteredEvents

\* the universe of the attribution specification: Begin and Complete events of
\* one timestamp with every payload shape, the End event, one filtered event
ScriptA == "https://example.com/a.js"
ScriptB == "https://example.com/b.js"

URLData ==
  {NoData,
   [url |-> ScriptA, stackTrace |-> NoArray],
   [url |-> ScriptB, stackTrace |-> NoArray],
   [url |-> Undefined, stackTrace |-> Array(<<[url |-> ScriptB]>>)],
   [url |-> ScriptA, stackTrace |-> Array(<<[url |-> ScriptB]>>)],
   [url |-> Undefined, stackTrace |-> Array(<<>>)],
   [url |-> Undefined, stackTrace |-> Array(<<[url |-> Undefined], [url |-> ScriptB]>>)]}

URLEvents ==
  {MainEvent("B", "TaskA", BaseTs, 0, d) : d \in URLData}
  \cup {MainEvent("X", "TaskA", BaseTs, 100 * UsPerMs, d) : d \in URLData}
  \cup {MainEvent("E", "TaskA", BaseTs, 0, NoData),
        MainEvent("I", "TracingStartedInPage", BaseTs, 0, NoData)}

\* the universe of the classification specification: Begin and Complete events
\* of one timestamp with an unrecognized name, a name of StyleLayout, of
\* ScriptEvaluation and of Other, with and without a URL, the End event, one
\* filtered event
GroupNames == {"TaskA", "Layout", "EvaluateScript", "MessageLoop::RunTask"}

GroupEvents ==
  {MainEvent("B", name, BaseTs, 0, d) :
     name \in GroupNames, d \in {NoData, [url |-> ScriptA, stackTrace |-> NoArray]}}
  \cup {MainEvent("X", name, BaseTs, 100 * UsPerMs, d) :
          name \in GroupNames, d \in {NoData, [url |-> ScriptA, stackTrace |-> NoArray]}}
  \cup {MainEvent("E", "TaskA", BaseTs, 0, NoData),
        MainEvent("I", "TracingStartedInPage", BaseTs, 0, NoData)}

(***************************************************************************)
(* State                                                                   *)
(***************************************************************************)
VARIABLES
  traceEvents,   \* the events read so far, in input order
  tasks,         \* the task nodes, in creation order
  currentTask,   \* the cursor: an index of tasks, or 0 for undefined
  pc,            \* position in getMainThreadTasks
  error          \* the message of the Error thrown, or undefined

vars == <<traceEvents, tasks, currentTask, pc, error>>

\* the messages of the three throw statements
UnbalancedTraceError == "Fatal trace logic error"
MismatchedEventError == "Fatal trace logic error"
InvalidTimingError == "Invalid task timing data"

OnMainThread(ev) == ev.pid = startedInPageEvt.pid /\ ev.tid = startedInPageEvt.tid
IsFiltered(ev) == ~OnMainThread(ev) \/ ev.ph \notin {"X", "B", "E"}

\* the events of a thread are sorted by timestamp
InOrder(ev) ==
  \A i \in 1..Len(traceEvents) :
    (traceEvents[i].pid = ev.pid /\ traceEvents[i].tid = ev.tid) => traceEvents[i].ts <= ev.ts

EventOf(T, n) == traceEvents[T[n].event]

(***************************************************************************)
(* MainThreadTasks._createNewTaskNode                                      *)
(***************************************************************************)
\* endTime of a new node: event.ph === 'X' ? event.ts + Number(event.dur || 0) : NaN
newEndTime(ev) == IF ev.ph = "X" THEN ev.ts + ev.dur ELSE NaN

\* the newTask literal; e is the index of the event in traceEvents
newTask(ev, e, parent) ==
  [event |-> e,
   startTime |-> ev.ts,
   endTime |-> newEndTime(ev),
   parent |-> parent,
   children |-> <<>>,
   group |-> taskGroupsOther,
   attributableURL |-> Undefined,
   duration |-> NaN,
   selfTime |-> NaN]

\* mutant of pushChild: the node is not added to its parent's children
pushNothing(T, parent, n) == T

\* parent.children.push(newTask), for a parent that is not undefined
pushChild(T, parent, n) == [T EXCEPT ![parent].children = Append(@, n)]

\* mutant of createNewTaskNode: the node is put first in the list of its
\* parent's children and first in tasks (unshift for push)
unshiftNewTaskNode(T, ev, e, parent) ==
  LET shift(s) == [i \in 1..Len(s) |-> s[i] + 1]
      moved == [i \in 1..Len(T) |->
                  [T[i] EXCEPT !.parent = IF @ = 0 THEN 0 ELSE @ + 1,
                               !.children = IF i = parent THEN <<1>> \o shift(@)
                                            ELSE shift(@)]]
  IN <<newTask(ev, e, IF parent = 0 THEN 0 ELSE parent + 1)>> \o moved

\* the nodes after _createNewTaskNode(event, parent) and tasks.push of the
\* node it returns: the new node is Len(T) + 1
createNewTaskNode(T, ev, e, parent) ==
  Append(IF parent # 0 THEN pushChild(T, parent, Len(T) + 1) ELSE T,
         newTask(ev, e, parent))

(***************************************************************************)
(* MainThreadTasks._createTasksFromEvents                                  *)
(***************************************************************************)
\* mutant of hasEnded: "<" for "<="
hasEndedStrict(task, ts) == IsFinite(task.endTime) /\ task.endTime < ts

\* mutant of hasEnded: the comparison reversed
hasEndedReversed(task, ts) == IsFinite(task.endTime) /\ task.endTime >= ts

\* mutant of hasEnded: an unresolved task counts as ended
hasEndedOrUnresolved(task, ts) == ~IsFinite(task.endTime) \/ task.endTime <= ts

\* mutant of hasEnded: the start time is compared
hasEndedAtStart(task, ts) == IsFinite(task.startTime) /\ task.startTime <= ts

\* the condition of the while loop for a cursor that is not undefined
hasEnded(task, ts) == IsFinite(task.endTime) /\ task.endTime <= ts

\* the cursor after the while loop
RECURSIVE closeOut(_, _, _)
closeOut(T, cur, ts) ==
  IF cur # 0 /\ hasEnded(T[cur], ts) THEN closeOut(T, T[cur].parent, ts) ELSE cur

\* the loop reads the next event of the input
Read(ev) ==
  /\ pc = "createTasks"
  /\ InOrder(ev)
  /\ traceEvents' = Append(traceEvents, ev)

\* mutant of SkipEvent: the filter is applied after the while loop
SkipAfterCloseOut(ev) ==
  /\ Read(ev)
  /\ IsFiltered(ev)
  /\ currentTask' = closeOut(tasks, currentTask, ev.ts)
  /\ UNCHANGED <<tasks, pc, error>>

\* the two continue statements of the filter
SkipEvent(ev) ==
  /\ Read(ev)
  /\ IsFiltered(ev)
  /\ UNCHANGED <<tasks, currentTask, pc, error>>

\* no current task, and the event is not an End: a new toplevel task
StartRootTask(ev) ==
  /\ Read(ev)
  /\ ~IsFiltered(ev)
  /\ closeOut(tasks, currentTask, ev.ts) = 0
  /\ ev.ph # "E"
  /\ tasks' = createNewTaskNode(tasks, ev, Len(traceEvents) + 1, 0)
  /\ currentTask' = Len(tasks) + 1
  /\ UNCHANGED <<pc, error>>

\* mutant of ThrowUnbalanced: the End event is skipped instead
SkipUnbalanced(ev) ==
  /\ Read(ev)
  /\ ~IsFiltered(ev)
  /\ closeOut(tasks, currentTask, ev.ts) = 0
  /\ ev.ph = "E"
  /\ currentTask' = 0
  /\ UNCHANGED <<tasks, pc, error>>

\* no current task, and the event is an End
ThrowUnbalanced(ev) ==
  /\ Read(ev)
  /\ ~IsFiltered(ev)
  /\ closeOut(tasks, currentTask, ev.ts) = 0
  /\ ev.ph = "E"
  /\ currentTask' = 0
  /\ pc' = "thrown"
  /\ error' = UnbalancedTraceError
  /\ UNCHANGED tasks

\* a Begin or Complete event under the current task
StartChildTask(ev) ==
  /\ Read(ev)
  /\ ~IsFiltered(ev)
  /\ LET cur == closeOut(tasks, currentTask, ev.ts) IN
       /\ cur # 0
       /\ ev.ph \in {"X", "B"}
       /\ tasks' = createNewTaskNode(tasks, ev, Len(traceEvents) + 1, cur)
       /\ currentTask' = Len(tasks) + 1
  /\ UNCHANGED <<pc, error>>

\* mutant of EndTask: the cursor moves to the task created last
EndTaskToLast(ev) ==
  /\ Read(ev)
  /\ ~IsFiltered(ev)
  /\ LET cur == closeOut(tasks, currentTask, ev.ts) IN
       /\ cur # 0
       /\ ev.ph \notin {"X", "B"}
       /\ EventOf(tasks, cur).ph = "B"
       /\ tasks' = [tasks EXCEPT ![cur].endTime = ev.ts]
       /\ currentTask' = Len(tasks)
  /\ UNCHANGED <<pc, error>>

\* an End event while the current task was opened by a Begin event
EndTask(ev) ==
  /\ Read(ev)
  /\ ~IsFiltered(ev)
  /\ LET cur == closeOut(tasks, currentTask, ev.ts) IN
       /\ cur # 0
       /\ ev.ph \notin {"X", "B"}
       /\ EventOf(tasks, cur).ph = "B"
       /\ tasks' = [tasks EXCEPT ![cur].endTime = ev.ts]
       /\ currentTask' = tasks[cur].parent
  /\ UNCHANGED <<pc, error>>

\* mutant of ThrowMismatched: the End closes the Complete task
EndMismatched(ev) ==
  /\ Read(ev)
  /\ ~IsFiltered(ev)
  /\ LET cur == closeOut(tasks, currentTask, ev.ts) IN
       /\ cur # 0
       /\ ev.ph \notin {"X", "B"}
       /\ EventOf(tasks, cur).ph # "B"
       /\ tasks' = [tasks EXCEPT ![cur].endTime = ev.ts]
       /\ currentTask' = tasks[cur].parent
  /\ UNCHANGED <<pc, error>>

\* mutant of ThrowMismatched: an End event of another name is rejected too
ThrowMismatchedOrRenamed(ev) ==
  /\ Read(ev)
  /\ ~IsFiltered(ev)
  /\ LET cur == closeOut(tasks, currentTask, ev.ts) IN
       /\ cur # 0
       /\ ev.ph \notin {"X", "B"}
       /\ EventOf(tasks, cur).ph # "B" \/ EventOf(tasks, cur).name # ev.name
       /\ currentTask' = cur
  /\ pc' = "thrown"
  /\ error' = MismatchedEventError
  /\ UNCHANGED tasks

\* an End event while the current task was not opened by a Begin event
ThrowMismatched(ev) ==
  /\ Read(ev)
  /\ ~IsFiltered(ev)
  /\ LET cur == closeOut(tasks, currentTask, ev.ts) IN
       /\ cur # 0
       /\ ev.ph \notin {"X", "B"}
       /\ EventOf(tasks, cur).ph # "B"
       /\ currentTask' = cur
  /\ pc' = "thrown"
  /\ error' = MismatchedEventError
  /\ UNCHANGED tasks

(***************************************************************************)
(* The recursive passes                                                    *)
(***************************************************************************)
\* mutant of selfTimeOf: the children's time is not subtracted
selfTimeIgnoringChildren(duration, childTime) == duration

\* mutant of selfTimeOf: the operands exchanged
selfTimeReversed(duration, childTime) == Sub(childTime, duration)

\* task.selfTime = task.duration - childTime
selfTimeOf(duration, childTime) == Sub(duration, childTime)

\* mutant of sumDurations: a child without finite duration counts as 0
RECURSIVE sumFiniteDurations(_, _, _)
sumFiniteDurations(T, cs, sum) ==
  IF cs = <<>> THEN sum
  ELSE sumFiniteDurations(T, Tail(cs),
         IF IsFinite(T[Head(cs)].duration) THEN Add(sum, T[Head(cs)].duration) ELSE sum)

\* mutant of sumDurations: only the first child is added
sumFirstDuration(T, cs, sum) ==
  IF cs = <<>> THEN sum ELSE Add(sum, T[Head(cs)].duration)

\* .reduce((sum, child) => sum + child, 0) over the durations of cs in T
RECURSIVE sumDurations(_, _, _)
sumDurations(T, cs, sum) ==
  IF cs = <<>> THEN sum ELSE sumDurations(T, Tail(cs), Add(sum, T[Head(cs)].duration))

\* _computeRecursiveSelfTime(task): the nodes after the call on node n
RECURSIVE computeRecursiveSelfTime(_, _)
RECURSIVE mapSelfTime(_, _)
mapSelfTime(T, cs) ==
  IF cs = <<>> THEN T ELSE mapSelfTime(computeRecursiveSelfTime(T, Head(cs)), Tail(cs))

computeRecursiveSelfTime(T, n) ==
  LET T1 == mapSelfTime(T, T[n].children)
      childTime == sumDurations(T1, T1[n].children, 0)
      duration == Sub(T1[n].endTime, T1[n].startTime)
  IN [T1 EXCEPT ![n].duration = duration, ![n].selfTime = selfTimeOf(duration, childTime)]

\* mutant of taskURL: the first frame that has a URL is used
taskURLAnyFrame(ev) ==
  LET argsData == ev.args.data
      stackFrames == IF argsData.stackTrace # NoArray THEN argsData.stackTrace[1]
                     ELSE <<[url |-> Undefined]>>
      withURL == {i \in 1..Len(stackFrames) : stackFrames[i].url # Undefined}
  IN Or(argsData.url,
        IF withURL # {} THEN stackFrames[CHOOSE i \in withURL : \A j \in withURL : i <= j].url
        ELSE Undefined)

\* argsData.url || (stackFrames[0] && stackFrames[0].url), with
\* stackFrames = argsData.stackTrace || [{url: undefined}]
taskURL(ev) ==
  LET argsData == ev.args.data
      stackFrames == IF argsData.stackTrace # NoArray THEN argsData.stackTrace[1]
                     ELSE <<[url |-> Undefined]>>
  IN Or(argsData.url, IF Len(stackFrames) > 0 THEN stackFrames[1].url ELSE Undefined)

\* mutant of attributableURLOf: the task's own URL wins over the parent's
attributableURLOwnFirst(parentURL, url) == Or(url, parentURL)

\* task.attributableURL = parentURL || taskURL
attributableURLOf(parentURL, url) == Or(parentURL, url)

\* _computeRecursiveAttributableURL(task, parentURL)
RECURSIVE computeRecursiveAttributableURL(_, _, _)
RECURSIVE forEachAttributableURL(_, _, _)
forEachAttributableURL(T, cs, parentURL) ==
  IF cs = <<>> THEN T
  ELSE forEachAttributableURL(
         computeRecursiveAttributableURL(T, Head(cs), parentURL), Tail(cs), parentURL)

computeRecursiveAttributableURL(T, n, parentURL) ==
  LET url == attributableURLOf(parentURL, taskURL(EventOf(T, n)))
      T1 == [T EXCEPT ![n].attributableURL = url]
  IN forEachAttributableURL(T1, T1[n].children, url)

\* task.group = group || parentGroup || taskGroups.other
\* mutant of groupOf: the parent's group is not inherited
groupIgnoringParent(name, parentGroup) == Or(taskNameToGroup(name), taskGroupsOther)

\* mutant of groupOf: the parent's group precedes the task's own
groupParentFirst(name, parentGroup) ==
  Or(parentGroup, Or(taskNameToGroup(name), taskGroupsOther))

groupOf(name, parentGroup) == Or(taskNameToGroup(name), Or(parentGroup, taskGroupsOther))

\* _computeRecursiveTaskGroup(task, parentGroup)
RECURSIVE computeRecursiveTaskGroup(_, _, _)
RECURSIVE forEachTaskGroup(_, _, _)
forEachTaskGroup(T, cs, parentGroup) ==
  IF cs = <<>> THEN T
  ELSE forEachTaskGroup(computeRecursiveTaskGroup(T, Head(cs), parentGroup), Tail(cs), parentGroup)

computeRecursiveTaskGroup(T, n, parentGroup) ==
  LET group == groupOf(EventOf(T, n).name, parentGroup)
      T1 == [T EXCEPT ![n].group = group]
  IN forEachTaskGroup(T1, T1[n].children, group)

(***************************************************************************)
(* MainThreadTasks.getMainThreadTasks                                      *)
(***************************************************************************)
\* mutant of skipsTask: the passes are started from every task
skipsNoTask(task) == FALSE

\* if (task.parent) continue
skipsTask(task) == task.parent # 0

\* the tasks whose duration and selfTime _computeRecursiveSelfTime(T[n])
\* assigns, in the order of the assignments: the children's before the task's
RECURSIVE selfTimeAssignments(_, _)
RECURSIVE mapSelfTimeAssignments(_, _)
mapSelfTimeAssignments(T, cs) ==
  IF cs = <<>> THEN <<>>
  ELSE selfTimeAssignments(T, Head(cs)) \o mapSelfTimeAssignments(T, Tail(cs))

selfTimeAssignments(T, n) == mapSelfTimeAssignments(T, T[n].children) \o <<n>>

\* the tasks whose attributableURL (whose group) the recursive call on T[n]
\* assigns, in the order of the assignments: the task's before the children's
RECURSIVE propertyAssignments(_, _)
RECURSIVE forEachPropertyAssignments(_, _)
forEachPropertyAssignments(T, cs) ==
  IF cs = <<>> THEN <<>>
  ELSE propertyAssignments(T, Head(cs)) \o forEachPropertyAssignments(T, Tail(cs))

propertyAssignments(T, n) == <<n>> \o forEachPropertyAssignments(T, T[n].children)

\* the assignments of the first loop from its iteration i on: those of the
\* self-time pass, of the URL pass and of the group pass
RECURSIVE firstLoopAssignments(_, _)
firstLoopAssignments(T, i) ==
  IF i > Len(T) THEN [selfTime |-> <<>>, attributableURL |-> <<>>, group |-> <<>>]
  ELSE LET rest == firstLoopAssignments(T, i + 1) IN
    IF skipsTask(T[i]) THEN rest
    ELSE [selfTime |-> selfTimeAssignments(T, i) \o rest.selfTime,
          attributableURL |-> propertyAssignments(T, i) \o rest.attributableURL,
          group |-> propertyAssignments(T, i) \o rest.group]

\* the body of the first loop for the task at index i: skipped for a task
\* with a parent, the three passes for a toplevel task
computeToplevel(T, i) ==
  IF skipsTask(T[i]) THEN T
  ELSE computeRecursiveTaskGroup(
         computeRecursiveAttributableURL(computeRecursiveSelfTime(T, i), i, Undefined),
         i, Undefined)

\* the first loop over the tasks, from index i on
RECURSIVE computeAll(_, _)
computeAll(T, i) == IF i > Len(T) THEN T ELSE computeAll(computeToplevel(T, i), i + 1)

\* mutant of firstTsOf: the times are not rebased
firstTsZero(T) == 0

\* (tasks[0] || {startTime: 0}).startTime
firstTsOf(T) == IF Len(T) > 0 THEN T[1].startTime ELSE 0

\* the four assignments of the second loop
rescale(task, firstTs) ==
  [task EXCEPT !.startTime = DivMs(Sub(task.startTime, firstTs)),
               !.endTime = DivMs(Sub(task.endTime, firstTs)),
               !.duration = DivMs(task.duration),
               !.selfTime = DivMs(task.selfTime)]

\* the nodes after the second loop rescaled the tasks 1..k
rescaleUpTo(T, k) ==
  LET firstTs == firstTsOf(T)
  IN [i \in 1..Len(T) |-> IF i <= k THEN rescale(T[i], firstTs) ELSE T[i]]

\* mutant of notFinite: a negative selfTime is rejected too
notFiniteOrNegative(T) == {i \in 1..Len(T) : ~IsFinite(T[i].selfTime) \/ T[i].selfTime < 0}

\* mutant of notFinite: an empty list is rejected too
notFiniteOrEmpty(T) ==
  IF T = <<>> THEN {0} ELSE {i \in 1..Len(T) : ~IsFinite(T[i].selfTime)}

\* the tasks the sanity check of the second loop rejects
notFinite(T) == {i \in 1..Len(T) : ~IsFinite(T[i].selfTime)}

\* the input is exhausted: _createTasksFromEvents returns the tasks, the
\* recursive properties are computed from the toplevel tasks, the second loop
\* rescales every task and the tasks are returned
ReturnTasks ==
  /\ pc = "createTasks"
  /\ LET computed == computeAll(tasks, 1) IN
       /\ notFinite(computed) = {}
       /\ tasks' = rescaleUpTo(computed, Len(computed))
  /\ pc' = "returned"
  /\ UNCHANGED <<traceEvents, currentTask, error>>

\* the same, but the second loop throws at the first task whose selfTime is
\* not finite
ThrowInvalidTiming ==
  /\ pc = "createTasks"
  /\ LET computed == computeAll(tasks, 1) IN
       /\ notFinite(computed) # {}
       /\ LET k == CHOOSE i \in notFinite(computed) : \A j \in notFinite(computed) : i <= j
          IN tasks' = rescaleUpTo(computed, k)
  /\ pc' = "thrown"
  /\ error' = InvalidTimingError
  /\ UNCHANGED <<traceEvents, currentTask>>

(***************************************************************************)
(* Specifications                                                          *)
(***************************************************************************)
Init ==
  /\ traceEvents = <<>>
  /\ tasks = <<>>
  /\ currentTask = 0
  /\ pc = "createTasks"
  /\ error = Undefined

\* one iteration of the for-loop of _createTasksFromEvents on an event of the
\* universe E, for an input of at most max events
ProcessEvent(E, max) ==
  \/ \E ev \in E : Len(traceEvents) < max /\ SkipEvent(ev)
  \/ \E ev \in E : Len(traceEvents) < max /\ StartRootTask(ev)
  \/ \E ev \in E : Len(traceEvents) < max /\ ThrowUnbalanced(ev)
  \/ \E ev \in E : Len(traceEvents) < max /\ StartChildTask(ev)
  \/ \E ev \in E : Len(traceEvents) < max /\ EndTask(ev)
  \/ \E ev \in E : Len(traceEvents) < max /\ ThrowMismatched(ev)

Next ==
  \/ ProcessEvent(TimingEvents, MaxEvents)
  \/ ReturnTasks
  \/ ThrowInvalidTiming

Spec == Init /\ [][Next]_vars

NextURL ==
  \/ ProcessEvent(URLEvents, MaxURLEvents)
  \/ ReturnTasks
  \/ ThrowInvalidTiming

SpecURL == Init /\ [][NextURL]_vars

NextGroup ==
  \/ ProcessEvent(GroupEvents, MaxGroupEvents)
  \/ ReturnTasks
  \/ ThrowInvalidTiming

SpecGroup == Init /\ [][NextGroup]_vars

(***************************************************************************)
(* audits/bootup-time.js: BootupTime.getExecutionTimingsByURL              *)
(***************************************************************************)
\* the tasks the loop does not skip: it reads task.group.id of each of them
isAttributed(task) == task.attributableURL # Undefined /\ task.attributableURL # "about:blank"

\* task.group.id can be read: task.group is a group object, not undefined
hasGroupId(task) == task.group # Undefined

(***************************************************************************)
(* Vocabulary of the properties                                            *)
(***************************************************************************)
Nodes == 1..Len(tasks)
Roots == {n \in Nodes : tasks[n].parent = 0}
Returned == pc = "returned"

\* n and its ancestors in T
RECURSIVE chain(_, _)
chain(T, n) == IF n = 0 THEN {} ELSE {n} \cup chain(T, T[n].parent)

\* the task that is current for an event at ts: the nearest node of the cursor's
\* chain that is unresolved or ends after ts (a parent precedes its children
\* in tasks, so it is the one created last), 0 if there is none
Cursor(ts) ==
  LET live == {c \in chain(tasks, currentTask) :
                 tasks[c].endTime = NaN \/ tasks[c].endTime > ts}
  IN IF live = {} THEN 0 ELSE CHOOSE c \in live : \A d \in live : d <= c

\* a step of the for-loop, and the event it reads
ReadStep == pc = "createTasks" /\ Len(traceEvents') = Len(traceEvents) + 1
NextEvent == traceEvents'[Len(traceEvents')]
LastEvent == traceEvents[Len(traceEvents)]

RECURSIVE SumOver(_, _)
SumOver(f, S) ==
  IF S = {} THEN 0 ELSE LET x == CHOOSE y \in S : TRUE IN f[x] + SumOver(f, S \ {x})

\* the number of nodes a traversal from n visits
RECURSIVE Visits(_)
Visits(n) ==
  1 + SumOver([i \in 1..Len(tasks[n].children) |-> Visits(tasks[n].children[i])],
              1..Len(tasks[n].children))

\* once thrown, nothing is returned
ThrownIsFinal == [][pc = "thrown" => pc' = "thrown"]_vars

(***************************************************************************)
(* C1: a Begin or Complete event read while the cursor, after closing out  *)
(* every resolved task that ended at or before the event, is a task T      *)
(* creates a node that becomes the last child of T, with parent T, and     *)
(* becomes the cursor; an accepted End event sets the end time of the      *)
(* cursor task to its timestamp.  The trace X A(0, 100ms), B B(5ms),       *)
(* X C(10ms, 30ms), E B(55ms) yields the three nodes of the unit test.     *)
(***************************************************************************)
ScenarioA ==
  <<MainEvent("X", "TaskA", BaseTs, 100 * UsPerMs, NoData),
    MainEvent("B", "TaskA", BaseTs + 5 * UsPerMs, 0, NoData),
    MainEvent("X", "TaskA", BaseTs + 10 * UsPerMs, 30 * UsPerMs, NoData),
    MainEvent("E", "TaskA", BaseTs + 55 * UsPerMs, 0, NoData)>>

Timing(n) ==
  <<tasks[n].startTime, tasks[n].endTime, tasks[n].duration, tasks[n].selfTime,
    tasks[n].parent, tasks[n].children>>

C1_NestingStep ==
  (ReadStep /\ ~IsFiltered(NextEvent) /\ Cursor(NextEvent.ts) # 0) =>
    LET ev == NextEvent
        T == Cursor(ev.ts)
        n == Len(tasks) + 1
    IN /\ ev.ph \in {"B", "X"} =>
            /\ Len(tasks') = n
            /\ tasks'[n].parent = T
            /\ tasks'[n].startTime = ev.ts
            /\ tasks'[n].event = Len(traceEvents')
            /\ tasks'[n].children = <<>>
            /\ tasks'[T] = [tasks[T] EXCEPT !.children = Append(@, n)]
            /\ \A i \in Nodes \ {T} : tasks'[i] = tasks[i]
            /\ currentTask' = n
       /\ (ev.ph = "E" /\ pc' # "thrown") =>
            /\ tasks' = [tasks EXCEPT ![T].endTime = ev.ts]
            /\ currentTask' = tasks[T].parent

C1_Scenario ==
  (Returned /\ traceEvents = ScenarioA) =>
    /\ Len(tasks) = 3
    /\ Timing(1) = <<0, 100, 100, 50, 0, <<2>>>>
    /\ Timing(2) = <<5, 55, 50, 20, 1, <<3>>>>
    /\ Timing(3) = <<10, 40, 30, 30, 2, <<>>>>

C1_Nesting == [][C1_NestingStep]_vars /\ []C1_Scenario

C1_Witness == Returned /\ traceEvents = ScenarioA /\ Len(tasks) = 3

(***************************************************************************)
(* C2: in every returned forest every node has duration = endTime -        *)
(* startTime and duration = (sum of its children's durations) + selfTime,  *)
(* and a finite selfTime.                                                  *)
(***************************************************************************)
ChildDurations(n) ==
  SumOver([i \in 1..Len(tasks[n].children) |-> tasks[tasks[n].children[i]].duration],
          1..Len(tasks[n].children))

C2_SelfTime ==
  Returned =>
    \A n \in Nodes :
      /\ IsFinite(tasks[n].selfTime) /\ IsFinite(tasks[n].duration)
      /\ IsFinite(tasks[n].startTime) /\ IsFinite(tasks[n].endTime)
      /\ tasks[n].duration = tasks[n].endTime - tasks[n].startTime
      /\ tasks[n].duration = ChildDurations(n) + tasks[n].selfTime

C2_Witness ==
  /\ Returned
  /\ \E n \in Nodes : Len(tasks[n].children) = 2 /\ tasks[n].parent # 0
                      /\ ChildDurations(n) > 0 /\ tasks[n].selfTime > 0

(***************************************************************************)
(* C3: an End event of the primary thread read while there is no current   *)
(* task fails with the unbalanced-trace error, and nothing is returned.    *)
(***************************************************************************)
C3_UnbalancedStep ==
  (ReadStep /\ ~IsFiltered(NextEvent) /\ NextEvent.ph = "E" /\ Cursor(NextEvent.ts) = 0) =>
    (pc' = "thrown" /\ error' = UnbalancedTraceError /\ tasks' = tasks)

C3_Unbalanced == [][C3_UnbalancedStep]_vars /\ ThrownIsFinal

\* thrown by an End that follows a task closed by its own End and a task
\* closed out by timestamp
C3_Witness ==
  /\ pc = "thrown" /\ error = UnbalancedTraceError /\ currentTask = 0
  /\ LastEvent.ph = "E"
  /\ \E a, b \in Roots : EventOf(tasks, a).ph = "B" /\ EventOf(tasks, b).ph = "X"

(***************************************************************************)
(* C4 (as stated): an End event read while the current task was created    *)
(* from a Complete event fails with MismatchedEventError, a failure kind   *)
(* distinct from UnbalancedTraceError, and leaves the task's end time      *)
(* unchanged; an End is accepted only when the current task was opened by  *)
(* a Begin event.                                                          *)
(***************************************************************************)
MismatchedEnd ==
  /\ ReadStep /\ ~IsFiltered(NextEvent) /\ NextEvent.ph = "E"
  /\ Cursor(NextEvent.ts) # 0
  /\ EventOf(tasks, Cursor(NextEvent.ts)).ph = "X"

AcceptedEnd ==
  ReadStep /\ ~IsFiltered(NextEvent) /\ NextEvent.ph = "E" /\ pc' # "thrown"

C4_AcceptedOnlyAfterBegin ==
  AcceptedEnd => (Cursor(NextEvent.ts) # 0 /\ EventOf(tasks, Cursor(NextEvent.ts)).ph = "B")

C4_DistinctKind ==
  [][MismatchedEnd =>
       (pc' = "thrown" /\ error' = MismatchedEventError
        /\ error' # UnbalancedTraceError /\ tasks' = tasks)]_vars
  /\ [][C4_AcceptedOnlyAfterBegin]_vars

(***************************************************************************)
(* C4 (amended): an End event read while the current task was created from *)
(* a Complete event fails with the same "Fatal trace logic error" that an  *)
(* End without current task raises, and leaves the task's end time         *)
(* unchanged; an End is accepted only when the current task was opened by  *)
(* a Begin event.                                                          *)
(***************************************************************************)
C4_Mismatched ==
  [][MismatchedEnd =>
       (pc' = "thrown" /\ error' = MismatchedEventError
        /\ error' = "Fatal trace logic error" /\ tasks' = tasks)]_vars
  /\ [][C4_AcceptedOnlyAfterBegin]_vars
  /\ ThrownIsFinal

C4_Witness ==
  /\ pc = "thrown" /\ error = MismatchedEventError
  /\ LastEvent.ph = "E"
  /\ currentTask # 0 /\ EventOf(tasks, currentTask).ph = "X"
  /\ tasks[currentTask].endTime > LastEvent.ts

(***************************************************************************)
(* C5 (as stated): when the input ends while a task opened by a Begin      *)
(* event was never closed, that task and all its ancestors have a selfTime *)
(* that is not finite, and no forest with a node of unresolved end time is *)
(* returned.                                                               *)
(***************************************************************************)
Open == {n \in Nodes : tasks[n].endTime = NaN}

C5_NoOpenReturned == Returned => Open = {}

C5_AllAncestors ==
  /\ (pc = "thrown" /\ error = InvalidTimingError) =>
       \A n \in Open : \A a \in chain(tasks, n) : tasks[a].selfTime = NaN
  /\ C5_NoOpenReturned

(***************************************************************************)
(* C5 (amended): when the input ends while a task opened by a Begin event  *)
(* was never closed, getMainThreadTasks fails with the invalid-timing      *)
(* error: the open task and its parent have a selfTime that is not finite  *)
(* (a more distant ancestor created from a Complete event keeps a finite   *)
(* selfTime when its own children are resolved); no returned forest has a  *)
(* node with unresolved end time.                                          *)
(***************************************************************************)
C5_OpenIsNotFinite ==
  (pc = "thrown" /\ error = InvalidTimingError) =>
    \A n \in Open :
      /\ tasks[n].selfTime = NaN
      /\ tasks[n].parent # 0 => tasks[tasks[n].parent].selfTime = NaN

\* the step that follows the last event of the input
InputEnds == pc = "createTasks" /\ pc' # "createTasks" /\ traceEvents' = traceEvents

C5_OpenThrows ==
  (InputEnds /\ Open # {}) => (pc' = "thrown" /\ error' = InvalidTimingError)

C5_OpenTask ==
  []C5_OpenIsNotFinite /\ []C5_NoOpenReturned /\ [][C5_OpenThrows]_vars /\ ThrownIsFinal

\* thrown for an open task below two resolved ancestors, the upper one with
\* finite selfTime
C5_Witness ==
  /\ pc = "thrown" /\ error = InvalidTimingError
  /\ \E n \in Open :
       /\ tasks[n].parent # 0 /\ tasks[tasks[n].parent].parent # 0
       /\ \A a \in chain(tasks, n) \ {n} : a \notin Open
       /\ IsFinite(tasks[tasks[tasks[n].parent].parent].selfTime)

(***************************************************************************)
(* C6 (as stated): in every returned forest every non-root node's interval *)
(* is contained in its parent's: parent.startTime <= child.startTime and   *)
(* child.endTime <= parent.endTime.                                        *)
(***************************************************************************)
C6_Contained ==
  Returned =>
    \A n \in Nodes \ Roots :
      /\ tasks[tasks[n].parent].startTime <= tasks[n].startTime
      /\ tasks[n].endTime <= tasks[tasks[n].parent].endTime

(***************************************************************************)
(* C6 (amended): in every returned forest every non-root node starts       *)
(* within its parent's interval (parent.startTime <= child.startTime <=    *)
(* parent.endTime), and child.endTime <= parent.endTime holds whenever the *)
(* parent was opened by a Begin event; under a Complete parent the child   *)
(* may end after the parent.                                               *)
(***************************************************************************)
C6_StartContained ==
  Returned =>
    \A n \in Nodes \ Roots :
      LET p == tasks[n].parent IN
        /\ tasks[p].startTime <= tasks[n].startTime
        /\ tasks[n].startTime <= tasks[p].endTime
        /\ EventOf(tasks, p).ph = "B" => tasks[n].endTime <= tasks[p].endTime

\* a Begin parent closed after its Complete child, and a Complete parent
\* that ends before its child
C6_Witness ==
  /\ Returned
  /\ \E n \in Nodes \ Roots :
       /\ EventOf(tasks, tasks[n].parent).ph = "B"
       /\ tasks[n].startTime > tasks[tasks[n].parent].startTime
  /\ \E n \in Nodes \ Roots : tasks[n].endTime > tasks[tasks[n].parent].endTime

(***************************************************************************)
(* C7: the returned list holds the nodes in the order of their creating    *)
(* events, so the roots are in the order of the events that opened them;   *)
(* events of equal timestamp keep their input order.                       *)
(***************************************************************************)
C7_CreationOrder ==
  Returned =>
    /\ \A n \in Nodes :
         /\ tasks[n].event \in 1..Len(traceEvents)
         /\ ~IsFiltered(EventOf(tasks, n)) /\ EventOf(tasks, n).ph \in {"B", "X"}
         /\ tasks[n].startTime = (EventOf(tasks, n).ts - EventOf(tasks, 1).ts) \div UsPerMs
    /\ \A m, n \in Nodes : m < n => tasks[m].event < tasks[n].event

\* two roots opened by events of the same timestamp, and a later root
C7_Witness ==
  /\ Returned
  /\ \E a, b \in Roots : a < b /\ EventOf(tasks, a).ts = EventOf(tasks, b).ts
  /\ \E a, b \in Roots : a < b /\ EventOf(tasks, a).ts < EventOf(tasks, b).ts

(***************************************************************************)
(* C8: at every point of the run, and so in every returned forest, the     *)
(* number of nodes equals the number of Begin and Complete events of the   *)
(* primary thread read so far and the number of nodes a traversal from the *)
(* roots visits; n is among p's children exactly when p is n's parent, and *)
(* then exactly once.                                                      *)
(***************************************************************************)
Occurrences(n, p) == Cardinality({i \in 1..Len(tasks[p].children) : tasks[p].children[i] = n})

C8_Reachable ==
    /\ Len(tasks) = Cardinality({i \in 1..Len(traceEvents) :
                       ~IsFiltered(traceEvents[i]) /\ traceEvents[i].ph \in {"B", "X"}})
    /\ Len(tasks) = SumOver([r \in Roots |-> Visits(r)], Roots)
    /\ \A n, p \in Nodes : Occurrences(n, p) = IF tasks[n].parent = p THEN 1 ELSE 0

\* a forest with a grandchild, read from a trace that also holds an event
\* that creates no node
C8_Witness ==
  /\ Returned
  /\ \E n \in Nodes : tasks[n].parent # 0 /\ tasks[tasks[n].parent].parent # 0
  /\ Len(traceEvents) > Len(tasks)

(***************************************************************************)
(* C9: in every returned forest the selfTime of all nodes sums to the      *)
(* duration of the roots, and that total is finite.                        *)
(***************************************************************************)
C9_TotalSelfTime ==
  Returned =>
    /\ \A n \in Nodes : IsFinite(tasks[n].selfTime) /\ IsFinite(tasks[n].duration)
    /\ SumOver([n \in Nodes |-> tasks[n].selfTime], Nodes)
         = SumOver([r \in Roots |-> tasks[r].duration], Roots)

\* a root with two children of positive duration
C9_Witness ==
  /\ Returned
  /\ \E r \in Roots : Len(tasks[r].children) = 2
                      /\ \A i \in 1..2 : tasks[tasks[r].children[i]].duration > 0

(***************************************************************************)
(* C10: in every returned forest a non-root node whose parent has an       *)
(* attributable URL carries the parent's URL, whatever its own explicit    *)
(* URL or call-stack URL; a node's own candidate is its URL exactly when   *)
(* it is a root or its parent is unattributed, so a root without candidate *)
(* stays unattributed; every node below an attributed node carries that    *)
(* node's URL.                                                             *)
(***************************************************************************)
OwnCandidate(n) ==
  LET data == EventOf(tasks, n).args.data IN
    IF data.url # Undefined THEN data.url
    ELSE IF data.stackTrace = NoArray THEN Undefined
    ELSE IF data.stackTrace[1] = <<>> THEN Undefined
    ELSE data.stackTrace[1][1].url

C10_URLPrecedence ==
  Returned =>
    \A n \in Nodes :
      LET p == tasks[n].parent IN
        /\ (p # 0 /\ tasks[p].attributableURL # Undefined) =>
             tasks[n].attributableURL = tasks[p].attributableURL
        /\ (p = 0 \/ tasks[p].attributableURL = Undefined) =>
             tasks[n].attributableURL = OwnCandidate(n)
        /\ tasks[n].attributableURL # Undefined =>
             \A d \in Nodes : n \in chain(tasks, d) =>
               tasks[d].attributableURL = tasks[n].attributableURL

\* an attributed parent over a child with another candidate, below an
\* unattributed root
C10_Witness ==
  /\ Returned
  /\ \E n \in Nodes \ Roots :
       /\ tasks[tasks[n].parent].attributableURL = ScriptA
       /\ OwnCandidate(n) = ScriptB
       /\ tasks[n].attributableURL = ScriptA
  /\ \E n \in Nodes \ Roots :
       /\ tasks[tasks[n].parent].attributableURL = Undefined
       /\ tasks[n].attributableURL # Undefined

(***************************************************************************)
(* Vocabulary of the classification properties                             *)
(***************************************************************************)
NameOf(n) == EventOf(tasks, n).name
Recognized(name) == \E g \in SeqRange(GroupIds) : name \in SeqRange(taskGroups[g].traceEventNames)
GroupOfName(name) ==
  CHOOSE g \in SeqRange(GroupIds) : name \in SeqRange(taskGroups[g].traceEventNames)
Ancestors(n) == chain(tasks, n) \ {n}

(***************************************************************************)
(* C11: in a returned forest a node whose event name is recognized and     *)
(* that has no classified ancestor has the group of its name, and a node   *)
(* whose event name is not recognized has the group of its parent when the *)
(* parent has one, at any depth.                                           *)
(***************************************************************************)
C11_Inheritance ==
  Returned =>
    \A n \in Nodes :
      /\ (Recognized(NameOf(n)) /\ \A a \in Ancestors(n) : tasks[a].group = Undefined) =>
           tasks[n].group = GroupOfName(NameOf(n))
      /\ (~Recognized(NameOf(n)) /\ tasks[n].parent # 0
            /\ tasks[tasks[n].parent].group # Undefined) =>
           tasks[n].group = tasks[tasks[n].parent].group

\* a script-evaluation root over two levels of unrecognized descendants, and
\* a layout node below unclassified ancestors only
C11_Witness ==
  /\ Returned
  /\ \/ \E n \in Nodes \ Roots :
          /\ tasks[n].parent \notin Roots
          /\ ~Recognized(NameOf(n)) /\ ~Recognized(NameOf(tasks[n].parent))
          /\ NameOf(tasks[tasks[n].parent].parent) = "EvaluateScript"
          /\ tasks[n].group = "ScriptEvaluation"
     \/ \E n \in Nodes \ Roots :
          /\ NameOf(n) = "Layout" /\ tasks[n].group = "StyleLayout"
          /\ Cardinality(Ancestors(n)) = 2
          /\ \A a \in Ancestors(n) : tasks[a].group = Undefined

(***************************************************************************)
(* C12: in a returned forest a node whose event name is recognized has the *)
(* group of its own name, whatever the group of its parent; it has the     *)
(* group of its parent only when its own name is not recognized.           *)
(***************************************************************************)
C12_OwnWins ==
  Returned =>
    \A n \in Nodes \ Roots :
      /\ Recognized(NameOf(n)) => tasks[n].group = GroupOfName(NameOf(n))
      /\ ~Recognized(NameOf(n)) => tasks[n].group = tasks[tasks[n].parent].group

\* C12 as stated: a node has the group of its parent whenever the parent has one
C12_ParentWins ==
  Returned =>
    \A n \in Nodes \ Roots :
      tasks[tasks[n].parent].group # Undefined =>
        tasks[n].group = tasks[tasks[n].parent].group

\* a layout node below a script-evaluation parent
C12_Witness ==
  /\ Returned
  /\ \E n \in Nodes \ Roots :
       /\ NameOf(n) = "Layout" /\ tasks[n].group = "StyleLayout"
       /\ tasks[tasks[n].parent].group = "ScriptEvaluation"

(***************************************************************************)
(* C13: every node of a returned forest has one of the groups of the       *)
(* registry; a node that has no recognized name on its chain has the group *)
(* Other; the group id of every node with an attributable URL can be read. *)
(***************************************************************************)
C13_Resolved ==
  Returned =>
    \A n \in Nodes :
      /\ tasks[n].group \in SeqRange(GroupIds)
      /\ (\A a \in chain(tasks, n) : ~Recognized(NameOf(a))) =>
           /\ tasks[n].group = "Other"
           /\ taskGroups[tasks[n].group].id = "Other"
           /\ taskGroups[tasks[n].group].label = "Other"
      /\ isAttributed(tasks[n]) => hasGroupId(tasks[n])

(***************************************************************************)
(* C16: the reverse lookup maps exactly the names the registry lists for   *)
(* Other to Other, and in a returned forest a node has the group Other     *)
(* exactly when its own name is one of them, or its name is not recognized *)
(* and its parent has the group Other.                                     *)
(***************************************************************************)
OtherNames == SeqRange(taskGroups["Other"].traceEventNames)

C16_OtherByName ==
  /\ {name \in traceEventNames \cup GroupNames : taskNameToGroup(name) = "Other"} = OtherNames
  /\ Returned =>
       \A n \in Nodes :
         tasks[n].group = "Other" <=>
           \/ NameOf(n) \in OtherNames
           \/ /\ ~Recognized(NameOf(n))
              /\ tasks[n].parent # 0
              /\ tasks[tasks[n].parent].group = "Other"

\* C16 as stated: no node has the group Other because of its name, and no node
\* with a classified parent that is not Other has the group Other
C16_OtherOnlyDefault ==
  Returned =>
    \A n \in Nodes :
      /\ tasks[n].group = "Other" => ~Recognized(NameOf(n))
      /\ (tasks[n].parent # 0 /\ tasks[tasks[n].parent].group \notin {Undefined, "Other"}) =>
           tasks[n].group # "Other"

\* a run-task node below a script-evaluation parent, and an unrecognized node
\* below a run-task parent
C16_Witness ==
  /\ Returned
  /\ \/ \E n \in Nodes \ Roots :
          /\ NameOf(n) = "MessageLoop::RunTask" /\ tasks[n].group = "Other"
          /\ tasks[tasks[n].parent].group = "ScriptEvaluation"
     \/ \E n \in Nodes \ Roots :
          /\ ~Recognized(NameOf(n)) /\ tasks[n].group = "Other"
          /\ NameOf(tasks[n].parent) = "MessageLoop::RunTask"

(***************************************************************************)
(* C14: when the forest is returned, with t0 the timestamp of the event of *)
(* the first node, every node's startTime is (timestamp of its event - t0) *)
(* / 1000 and its endTime is (its end before rescaling - t0) / 1000; the   *)
(* first node is a root that starts at 0, no startTime is negative and     *)
(* endTime - startTime = duration.                                         *)
(***************************************************************************)
OriginalEnd(n) ==
  IF EventOf(tasks, n).ph = "X" THEN EventOf(tasks, n).ts + EventOf(tasks, n).dur
  ELSE tasks[n].endTime

C14_RescaleStep ==
  (pc = "createTasks" /\ pc' = "returned") =>
    \A n \in Nodes :
      LET t0 == EventOf(tasks, 1).ts IN
        /\ tasks'[n].startTime * UsPerMs = EventOf(tasks, n).ts - t0
        /\ tasks'[n].endTime * UsPerMs = OriginalEnd(n) - t0
        /\ tasks'[n].startTime >= 0
        /\ tasks'[n].endTime - tasks'[n].startTime = tasks'[n].duration
        /\ tasks'[1].parent = 0 /\ tasks'[1].startTime = 0

C14_Normalized == [][C14_RescaleStep]_vars

\* a returned forest with a Begin/End task from 5 ms to 55 ms after the first
\* root
C14_Witness ==
  /\ Returned
  /\ \E n \in Nodes :
       /\ EventOf(tasks, n).ph = "B"
       /\ EventOf(tasks, n).ts = BaseTs + 5 * UsPerMs
       /\ tasks[n].startTime = 5 /\ tasks[n].endTime = 55 /\ tasks[n].duration = 50
       /\ EventOf(tasks, 1).ts = BaseTs

(***************************************************************************)
(* C15: reading an event of another process or thread, or of a phase other *)
(* than B, E and X, changes neither the tasks nor the cursor and raises no *)
(* error; the tasks, the cursor and the error are those of the input       *)
(* without its filtered events.                                            *)
(***************************************************************************)
C15_FilterStep ==
  (ReadStep /\ IsFiltered(NextEvent)) => UNCHANGED <<tasks, currentTask, pc, error>>

\* the loop body for the unfiltered event at position i, from the state S
Process(S, i) ==
  LET ev == traceEvents[i]
      cur == closeOut(S.tasks, S.currentTask, ev.ts)
  IN IF S.pc # "createTasks" THEN S
     ELSE IF ev.ph \in {"X", "B"}
       THEN [S EXCEPT !.tasks = createNewTaskNode(S.tasks, ev, i, cur),
                      !.currentTask = Len(S.tasks) + 1]
     ELSE IF cur = 0
       THEN [S EXCEPT !.currentTask = 0, !.pc = "thrown", !.error = UnbalancedTraceError]
     ELSE IF traceEvents[S.tasks[cur].event].ph = "B"
       THEN [S EXCEPT !.tasks[cur].endTime = ev.ts, !.currentTask = S.tasks[cur].parent]
     ELSE [S EXCEPT !.currentTask = cur, !.pc = "thrown", !.error = MismatchedEventError]

\* the state after the first k events of the input, its filtered events removed
RECURSIVE WithoutFiltered(_)
WithoutFiltered(k) ==
  IF k = 0 THEN [tasks |-> <<>>, currentTask |-> 0, pc |-> "createTasks", error |-> Undefined]
  ELSE IF IsFiltered(traceEvents[k]) THEN WithoutFiltered(k - 1)
  ELSE Process(WithoutFiltered(k - 1), k)

C15_SameForest ==
  (pc = "createTasks" \/ (pc = "thrown" /\ error # InvalidTimingError)) =>
    [tasks |-> tasks, currentTask |-> currentTask, pc |-> pc, error |-> error]
      = WithoutFiltered(Len(traceEvents))

C15_Filter == [][C15_FilterStep]_vars /\ []C15_SameForest

\* an event of another thread, later than the end of the cursor's task, was
\* read between two events of the main thread
C15_Witness ==
  /\ pc = "createTasks"
  /\ \E i \in 2..(Len(traceEvents) - 1) :
       /\ ~OnMainThread(traceEvents[i])
       /\ ~IsFiltered(traceEvents[i - 1]) /\ ~IsFiltered(traceEvents[i + 1])
       /\ \E n \in Nodes : IsFinite(tasks[n].endTime) /\ tasks[n].endTime <= traceEvents[i].ts
                              /\ tasks[n].event = i - 1
                              /\ traceEvents[i + 1].ts < traceEvents[i].ts

(***************************************************************************)
(* C17: in a returned forest the URL of a node that inherits none is the   *)
(* explicit URL of its event's payload when there is one, else the URL of  *)
(* the first frame of the call stack when that frame has one, else         *)
(* unresolved, whatever a later frame carries.                             *)
(***************************************************************************)
Payload(n) == EventOf(tasks, n).args.data
Frames(n) == Payload(n).stackTrace[1]

C17_OwnCandidate ==
  Returned =>
    \A n \in Nodes :
      (tasks[n].parent = 0 \/ tasks[tasks[n].parent].attributableURL = Undefined) =>
        /\ Payload(n).url # Undefined => tasks[n].attributableURL = Payload(n).url
        /\ (Payload(n).url = Undefined /\ Payload(n).stackTrace = NoArray) =>
             tasks[n].attributableURL = Undefined
        /\ (Payload(n).url = Undefined /\ Payload(n).stackTrace # NoArray) =>
             /\ Frames(n) = <<>> => tasks[n].attributableURL = Undefined
             /\ Frames(n) # <<>> => tasks[n].attributableURL = Frames(n)[1].url

\* a root without candidate although its second frame has a URL, and a root
\* whose explicit URL wins over the URL of its first frame
C17_Witness ==
  /\ Returned
  /\ \E n \in Roots :
       /\ Payload(n).url = Undefined /\ Payload(n).stackTrace # NoArray
       /\ Len(Frames(n)) = 2 /\ Frames(n)[2].url = ScriptB
       /\ tasks[n].attributableURL = Undefined
  /\ \E n \in Roots :
       /\ Payload(n).url = ScriptA /\ Payload(n).stackTrace # NoArray
       /\ Frames(n)[1].url = ScriptB
       /\ tasks[n].attributableURL = ScriptA

(***************************************************************************)
(* C18: when the input ends with every task resolved the forest is         *)
(* returned, and a node whose children's durations sum to more than its    *)
(* own duration has a negative selfTime; getMainThreadTasks throws the     *)
(* invalid-timing error only for a selfTime that is not finite.            *)
(***************************************************************************)
RawDuration(n) == tasks[n].endTime - tasks[n].startTime
RawChildDurations(n) ==
  SumOver([i \in 1..Len(tasks[n].children) |-> RawDuration(tasks[n].children[i])],
          1..Len(tasks[n].children))

C18_EndStep ==
  InputEnds =>
    /\ Open = {} =>
         /\ pc' = "returned"
         /\ \A n \in Nodes : RawChildDurations(n) > RawDuration(n) => tasks'[n].selfTime < 0
    /\ pc' = "thrown" =>
         /\ error' = InvalidTimingError
         /\ \E n \in Nodes : tasks'[n].selfTime = NaN

C18_NegativeSelfTime == [][C18_EndStep]_vars

\* a returned Complete task with negative selfTime: its child ends after it
C18_Witness ==
  /\ Returned
  /\ \E n \in Nodes :
       /\ tasks[n].selfTime < 0 /\ tasks[n].selfTime # NaN
       /\ EventOf(tasks, n).ph = "X"
       /\ \E i \in 1..Len(tasks[n].children) :
            tasks[tasks[n].children[i]].endTime > tasks[n].endTime

(***************************************************************************)
(* C19: the first loop starts the three passes from tasks without parent   *)
(* only and assigns the duration and selfTime, the attributableURL and the *)
(* group of every task exactly once; the second loop divides the duration  *)
(* and the selfTime of every task of a returned forest by 1000 once.       *)
(***************************************************************************)
Count(seq, n) == Cardinality({k \in 1..Len(seq) : seq[k] = n})

C19_AssignedOnce ==
  pc = "createTasks" =>
    LET log == firstLoopAssignments(tasks, 1) IN
      /\ \A n \in Nodes : ~skipsTask(tasks[n]) => tasks[n].parent = 0
      /\ \A n \in Nodes :
           /\ Count(log.selfTime, n) = 1
           /\ Count(log.attributableURL, n) = 1
           /\ Count(log.group, n) = 1

C19_RescaledOnce ==
  (pc = "createTasks" /\ pc' = "returned") =>
    \A n \in Nodes :
      /\ tasks'[n].duration * UsPerMs = RawDuration(n)
      /\ tasks'[n].selfTime * UsPerMs = RawDuration(n) - RawChildDurations(n)
      /\ (tasks'[n].endTime - tasks'[n].startTime) * UsPerMs = RawDuration(n)

C19_SingleEvaluation == []C19_AssignedOnce /\ [][C19_RescaledOnce]_vars

\* a returned forest of a root with a child and a grandchild, and a second root
C19_Witness ==
  /\ Returned
  /\ Cardinality(Roots) >= 2
  /\ \E n \in Nodes \ Roots : tasks[n].parent \notin Roots
  /\ \A n \in Nodes : tasks[n].duration > 0

(***************************************************************************)
(* C20: when the input ends after the anchor event and no B, E or X event  *)
(* of the main thread, getMainThreadTasks returns the empty list and       *)
(* raises no error; the first timestamp is taken as 0.                     *)
(***************************************************************************)
AnchorRead ==
  \E i \in 1..Len(traceEvents) :
    OnMainThread(traceEvents[i]) /\ traceEvents[i].name = "TracingStartedInPage"

NoTaskEvent == \A i \in 1..Len(traceEvents) : IsFiltered(traceEvents[i])

C20_EmptyStep ==
  (InputEnds /\ AnchorRead /\ NoTaskEvent) =>
    /\ tasks = <<>> /\ firstTsOf(tasks) = 0
    /\ pc' = "returned" /\ tasks' = <<>> /\ error' = Undefined

C20_EmptyForest == [][C20_EmptyStep]_vars

\* the empty list returned for the anchor and events of another thread and of
\* another process
C20_Witness ==
  /\ Returned /\ tasks = <<>> /\ error = Undefined
  /\ AnchorRead /\ NoTaskEvent
  /\ \E i \in 1..Len(traceEvents) : traceEvents[i].tid # startedInPageEvt.tid
  /\ \E i \in 1..Len(traceEvents) : traceEvents[i].pid # startedInPageEvt.pid

(***************************************************************************)
(* C21: the cursor moves only to the node just created or, upwards, to a   *)
(* node of the chain of the cursor that the closing-out loop stopped at    *)
(* (or to none); a node that has left the chain of the cursor never is on  *)
(* it again; every parent was created before its children, so the         *)
(* closing-out loop ends after at most as many steps as there are nodes.   *)
(***************************************************************************)
Left == Nodes \ chain(tasks, currentTask)

C21_CursorStep ==
  /\ (ReadStep /\ ~IsFiltered(NextEvent)) =>
       \/ Len(tasks') = Len(tasks) + 1 /\ currentTask' = Len(tasks')
       \/ /\ tasks' \in [Nodes -> {tasks[n] : n \in Nodes}
                                   \cup {[tasks[n] EXCEPT !.endTime = NextEvent.ts] : n \in Nodes}]
          /\ currentTask' \in chain(tasks, Cursor(NextEvent.ts)) \cup {0}
  /\ currentTask' # currentTask =>
       \/ currentTask' \notin Nodes /\ currentTask' = Len(tasks')
       \/ currentTask' \in Ancestors(currentTask) \cup {0}
  /\ \A n \in Left : n \notin chain(tasks', currentTask')

C21_ParentsFirst == \A n \in Nodes : tasks[n].parent < n

C21_BoundedCursor == [][C21_CursorStep]_vars /\ []C21_ParentsFirst

\* a task closed by an End event and a Complete task closed out have left the
\* chain of the cursor, which is on a third task
C21_Witness ==
  /\ pc = "createTasks" /\ currentTask # 0
  /\ \E n \in Left : EventOf(tasks, n).ph = "B" /\ IsFinite(tasks[n].endTime)
  /\ \E n \in Left : EventOf(tasks, n).ph = "X"

(***************************************************************************)
(* C22: after any prefix of the events every node whose end time is        *)
(* unresolved is the cursor or an ancestor of the cursor, so without       *)
(* cursor every node is resolved; an accepted End event closes the open    *)
(* task that was created last.                                             *)
(***************************************************************************)
C22_OpenOnChain ==
  pc = "createTasks" =>
    /\ Open \subseteq chain(tasks, currentTask)
    /\ currentTask = 0 => \A n \in Nodes : IsFinite(tasks[n].endTime)

C22_EndStep ==
  AcceptedEnd =>
    /\ Open # {}
    /\ LET last == CHOOSE n \in Open : \A m \in Open : m <= n IN
         /\ EventOf(tasks, last).ph = "B"
         /\ tasks'[last].endTime = NextEvent.ts
         /\ \A n \in Nodes \ {last} : tasks'[n].endTime = tasks[n].endTime

C22_OpenStack == []C22_OpenOnChain /\ [][C22_EndStep]_vars

\* an End event closed the inner of two open tasks, beside a resolved sibling
C22_Witness ==
  /\ pc = "createTasks" /\ traceEvents # <<>>
  /\ LastEvent.ph = "E" /\ OnMainThread(LastEvent)
  /\ Open # {} /\ currentTask \in Open
  /\ \E n \in Left : EventOf(tasks, n).ph = "B" /\ tasks[n].endTime = LastEvent.ts
  /\ \E n \in Left : EventOf(tasks, n).ph = "X"

(***************************************************************************)
(* C23: after any prefix of the events, and in the returned forest, the    *)
(* children of every node and the roots are in the order of their start    *)
(* times and do not overlap: of two consecutive siblings the first is      *)
(* resolved and ends at or before the start of the second.                 *)
(***************************************************************************)
RootSeq == [i \in 1..Cardinality(Roots) |->
              CHOOSE r \in Roots : Cardinality({q \in Roots : q <= r}) = i]

Disjoint(siblings) ==
  \A i \in 1..(Len(siblings) - 1) :
    LET a == tasks[siblings[i]]
        b == tasks[siblings[i + 1]]
    IN /\ IsFinite(a.endTime)
       /\ a.startTime <= b.startTime
       /\ a.endTime <= b.startTime

C23_Siblings ==
  pc \in {"createTasks", "returned"} =>
    /\ Disjoint(RootSeq)
    /\ \A n \in Nodes : Disjoint(tasks[n].children)

\* two roots, the second with two children, each sibling starting where the
\* previous one ends or later
C23_Witness ==
  /\ Returned
  /\ Cardinality(Roots) >= 2
  /\ \E n \in Nodes : Len(tasks[n].children) >= 2
                          /\ tasks[tasks[n].children[1]].endTime > tasks[n].startTime

(***************************************************************************)
(* C24: an End event read while the cursor, after closing out, is a task   *)
(* opened by a Begin event closes that task at its timestamp and raises no *)
(* error, whatever the names of the two events; the trace B 'Layout',      *)
(* E 'TaskA' yields one task of the name 'Layout'.                         *)
(***************************************************************************)
RenamedEnd == <<MainEvent("B", "Layout", BaseTs, 0, NoData), MainEvent("E", "TaskA", BaseTs, 0, NoData)>>

C24_EndStep ==
  (/\ ReadStep /\ ~IsFiltered(NextEvent) /\ NextEvent.ph = "E"
   /\ Cursor(NextEvent.ts) # 0
   /\ EventOf(tasks, Cursor(NextEvent.ts)).ph = "B") =>
    /\ tasks' = [tasks EXCEPT ![Cursor(NextEvent.ts)].endTime = NextEvent.ts]
    /\ pc' = "createTasks" /\ error' = Undefined

C24_Scenario ==
  /\ traceEvents = RenamedEnd => pc # "thrown"
  /\ (Returned /\ traceEvents = RenamedEnd) =>
       /\ Len(tasks) = 1 /\ NameOf(1) = "Layout"
       /\ tasks[1].startTime = 0 /\ tasks[1].endTime = 0 /\ tasks[1].parent = 0

C24_AnyName == [][C24_EndStep]_vars /\ []C24_Scenario

\* the task of a Begin event, closed by an End event of another name
C24_Witness ==
  /\ Returned /\ traceEvents = RenamedEnd
  /\ NameOf(1) # traceEvents[2].name
  /\ IsFinite(tasks[1].endTime) /\ error = Undefined

(***************************************************************************)
(* C25: in a returned forest a node whose children all lie within its own  *)
(* interval has a selfTime of at least 0; a node with negative selfTime    *)
(* has a child that ends after the node's own end.                         *)
(***************************************************************************)
ChildrenOf(n) == SeqRange(tasks[n].children)
Within(c, n) ==
  tasks[n].startTime <= tasks[c].startTime /\ tasks[c].endTime <= tasks[n].endTime

C25_NonNegative ==
  Returned =>
    \A n \in Nodes :
      /\ (\A c \in ChildrenOf(n) : Within(c, n)) => tasks[n].selfTime >= 0
      /\ tasks[n].selfTime < 0 => \E c \in ChildrenOf(n) : tasks[c].endTime > tasks[n].endTime

\* a node with positive selfTime whose children lie within its interval, and
\* a node with negative selfTime
C25_Witness ==
  /\ Returned
  /\ \E n \in Nodes :
       /\ ChildrenOf(n) # {} /\ \A c \in ChildrenOf(n) : Within(c, n)
       /\ tasks[n].selfTime > 0
  /\ \E m \in Nodes :
       /\ tasks[m].selfTime < 0
       /\ \E c \in ChildrenOf(m) : tasks[c].endTime > tasks[m].endTime

====
